---- MODULE Spec2Model ----
(***************************************************************************)
(* Path functions of manim/utils/paths.py: straight_path,                  *)
(* path_along_circles, path_along_arc, clockwise_path,                     *)
(* counterclockwise_path and spiral_path.                                  *)
(*                                                                         *)
(* Numbers.  A coordinate is a float64 in the program.  Here it is an      *)
(* exact number (a + b*sqrt(2))/d, written <<a, b, d>> with d > 0 and in   *)
(* lowest terms, or one of three classes of doubles that exact arithmetic  *)
(* cannot name:                                                            *)
(*   Tiny  a nonzero double of rounding size (about 1e-16), such as        *)
(*         sin(np.pi), cos(np.pi/2) or tan(np.pi);                         *)
(*   Big   a finite double whose low-order digits carry no information: a  *)
(*         value of order 1e16 such as tan(np.pi/2) or x/tan(np.pi), or    *)
(*         what is left when such values are added, cancelled or scaled;   *)
(*   NaN   a non-finite double (inf or nan), the result of x/0.0.          *)
(* Two doubles that differ by rounding only are the same number here.      *)
(*                                                                         *)
(* Angles.  An angle is <<q, m>>: q quarter turns (q * np.pi/2) plus m     *)
(* milliradians.  Trigonometric values are exact for m = 0 and rotation    *)
(* angles are counted in eighths of a turn (np.pi/4).                      *)
(***************************************************************************)
EXTENDS Integers, Sequences, FiniteSets, TLC

(***************************************************************************)
(* Bounds of the model.                                                    *)
(***************************************************************************)
MaxLen == 3
MaxQuarter == 4
MaxAlphaHalves == 3

(***************************************************************************)
(* float64 arithmetic                                                      *)
(***************************************************************************)
NaN == <<0, 0, 0>>
Big == <<1, 0, 0>>
Tiny == <<0, 1, 0>>
Zero == <<0, 0, 1>>
One == <<1, 0, 1>>
Half == <<1, 0, 2>>
Two == <<2, 0, 1>>
Sqrt2Half == <<0, 1, 2>>

Abs(n) == IF n < 0 THEN -n ELSE n

RECURSIVE GCD(_, _)
GCD(a, b) == IF b = 0 THEN a ELSE GCD(b, a % b)

Num(a, b, d) ==
    LET g == GCD(GCD(Abs(a), Abs(b)), Abs(d))
        s == IF d < 0 THEN -1 ELSE 1
    IN  <<(s * a) \div g, (s * b) \div g, (s * d) \div g>>

FromInt(n) == <<n, 0, 1>>

IsNum(x) == x[3] # 0

Neg(x) == IF IsNum(x) THEN <<-x[1], -x[2], x[3]>> ELSE x

Add(x, y) ==
    IF x = NaN \/ y = NaN THEN NaN
    ELSE IF x = Big \/ y = Big THEN Big
    ELSE IF x = Tiny THEN (IF y = Tiny \/ y = Zero THEN Tiny ELSE y)
    ELSE IF y = Tiny THEN (IF x = Zero THEN Tiny ELSE x)
    ELSE Num(x[1] * y[3] + y[1] * x[3], x[2] * y[3] + y[2] * x[3], x[3] * y[3])

Sub(x, y) == Add(x, Neg(y))

Mul(x, y) ==
    IF x = NaN \/ y = NaN THEN NaN
    ELSE IF x = Zero \/ y = Zero THEN Zero
    ELSE IF x = Big \/ y = Big THEN Big
    ELSE IF x = Tiny \/ y = Tiny THEN Tiny
    ELSE Num(x[1] * y[1] + 2 * x[2] * y[2], x[1] * y[2] + x[2] * y[1], x[3] * y[3])

Div(x, y) ==
    IF x = NaN \/ y = NaN THEN NaN
    ELSE IF y = Zero THEN NaN
    ELSE IF x = Zero THEN Zero
    ELSE IF y = Tiny THEN Big
    ELSE IF y = Big THEN (IF x = Big THEN Big ELSE Tiny)
    ELSE IF ~IsNum(x) THEN x
    ELSE Mul(x, Num(y[3] * y[1], -(y[3] * y[2]), y[1] * y[1] - 2 * y[2] * y[2]))

\* A result is reported to within rounding: a Tiny component is 0.
Chop(x) == IF x = Tiny THEN Zero ELSE x

(***************************************************************************)
(* numpy arrays: a point is <<x, y, z>>, a collection of shape (N, 3) is a *)
(* sequence of N points, a single point of shape (3,) is a sequence of one *)
(* point.  Binary operations broadcast as numpy does.                      *)
(***************************************************************************)
Pt(p) == <<FromInt(p[1]), FromInt(p[2]), FromInt(p[3])>>

Broadcastable(n, m) == n = m \/ n = 1 \/ m = 1

\* No broadcasting: a result as long as the left operand.
BLen_left(n, m) == n

BLen(n, m) == IF n = 1 THEN m ELSE n

\* Every row of an operation reads the first point of its operand.
Row_first(A, i) == A[1]

Row(A, i) == IF Len(A) = 1 THEN A[1] ELSE A[i]

\* The array with rows row[1], ..., row[n].
RECURSIVE Rows(_, _)
Rows(n, row) == IF n = 0 THEN <<>> ELSE Append(Rows(n - 1, row), row[n])

np_add(A, B) ==
    LET n == BLen(Len(A), Len(B))
        row == [i \in 1..n |->
                   LET a == Row(A, i)
                       b == Row(B, i)
                   IN  <<Add(a[1], b[1]), Add(a[2], b[2]), Add(a[3], b[3])>>]
    IN  Rows(n, row)

np_sub(A, B) ==
    LET n == BLen(Len(A), Len(B))
        row == [i \in 1..n |->
                   LET a == Row(A, i)
                       b == Row(B, i)
                   IN  <<Sub(a[1], b[1]), Sub(a[2], b[2]), Sub(a[3], b[3])>>]
    IN  Rows(n, row)

np_scale(c, A) ==
    LET row == [i \in 1..Len(A) |->
                   <<Mul(c, A[i][1]), Mul(c, A[i][2]), Mul(c, A[i][3])>>]
    IN  Rows(Len(A), row)

np_divide(A, c) ==
    LET row == [i \in 1..Len(A) |->
                   <<Div(A[i][1], c), Div(A[i][2], c), Div(A[i][3], c)>>]
    IN  Rows(Len(A), row)

np_cross(u, A) ==
    LET row == [i \in 1..Len(A) |->
                   << Sub(Mul(u[2], A[i][3]), Mul(u[3], A[i][2])),
                      Sub(Mul(u[3], A[i][1]), Mul(u[1], A[i][3])),
                      Sub(Mul(u[1], A[i][2]), Mul(u[2], A[i][1])) >>]
    IN  Rows(Len(A), row)

\* np.dot(A, R.T): row i of the result is R applied to point i.
np_dot_T(A, R) ==
    LET comp(a, r) == Add(Add(Mul(a[1], r[1]), Mul(a[2], r[2])), Mul(a[3], r[3]))
        row == [i \in 1..Len(A) |->
                   <<comp(A[i], R[1]), comp(A[i], R[2]), comp(A[i], R[3])>>]
    IN  Rows(Len(A), row)

ChopAll(A) ==
    LET row == [i \in 1..Len(A) |->
                   <<Chop(A[i][1]), Chop(A[i][2]), Chop(A[i][3])>>]
    IN  Rows(Len(A), row)

(***************************************************************************)
(* Angles and trigonometry                                                 *)
(***************************************************************************)
PI_MILLI == 3142
STRAIGHT_PATH_THRESHOLD == 10

PI == <<2, 0>>

\* abs(angle) in milliradians.
AngleAbs(angle) == Abs(angle[1] * (PI_MILLI \div 2) + angle[2])

\* alpha * angle, (alpha - 1) * angle and -angle in eighths of a turn;
\* alpha is a multiple of 1/2 and angle a multiple of np.pi/2.
Eighths(alpha, angle) == (alpha[1] * 2 * angle[1]) \div alpha[3]

np_cos(r) ==
    CASE r % 8 = 0 -> One
      [] r % 8 \in {1, 7} -> Sqrt2Half
      [] r % 8 \in {2, 6} -> Tiny
      [] r % 8 \in {3, 5} -> Neg(Sqrt2Half)
      [] r % 8 = 4 -> Neg(One)

np_sin(r) ==
    CASE r = 0 -> Zero
      [] r % 8 \in {0, 4} -> Tiny
      [] r % 8 \in {1, 3} -> Sqrt2Half
      [] r % 8 = 2 -> One
      [] r % 8 \in {5, 7} -> Neg(Sqrt2Half)
      [] r % 8 = 6 -> Neg(One)

\* np.tan(arc_angle / 2): arc_angle / 2 is angle[1] eighths of a turn.
np_tan_half(angle) ==
    LET r == angle[1]
    IN  CASE r = 0 -> Zero
          [] r % 4 = 0 -> Tiny
          [] r % 4 = 1 -> One
          [] r % 4 = 2 -> Big
          [] r % 4 = 3 -> Neg(One)

(***************************************************************************)
(* ..constants.OUT, ..utils.space_ops, ..utils.bezier                      *)
(***************************************************************************)
OUT == <<0, 0, 1>>

ISqrt(n) == CHOOSE k \in 0..n : k * k = n

\* normalize(v, fall_back): v scaled to unit length, fall_back for a zero v.
normalize(v, fall_back) ==
    LET norm == ISqrt(v[1] * v[1] + v[2] * v[2] + v[3] * v[3])
    IN  IF norm = 0 THEN Pt(fall_back)
        ELSE <<Num(v[1], 0, norm), Num(v[2], 0, norm), Num(v[3], 0, norm)>>

\* rotation_matrix(angle, axis): identity*cos + skew(axis)*sin
\*                               + outer(axis, axis)*(1 - cos).
rotation_matrix(r, axis) ==
    LET c == np_cos(r)
        s == np_sin(r)
        K == << <<Zero, Neg(axis[3]), axis[2]>>,
                <<axis[3], Zero, Neg(axis[1])>>,
                <<Neg(axis[2]), axis[1], Zero>> >>
        entry(i, j) ==
            Add(Add(IF i = j THEN c ELSE Zero, Mul(s, K[i][j])),
                Mul(Sub(One, c), Mul(axis[i], axis[j])))
    IN  << <<entry(1, 1), entry(1, 2), entry(1, 3)>>,
           <<entry(2, 1), entry(2, 2), entry(2, 3)>>,
           <<entry(3, 1), entry(3, 2), entry(3, 3)>> >>

Ok(A) == [status |-> "ok", value |-> ChopAll(A)]
ValueError == [status |-> "ValueError", value |-> <<>>]
NoResult == [status |-> "none", value |-> <<>>]

\* interpolate(start, end, alpha) = start + alpha * (end - start), point by
\* point, for two collections of the same length.
interpolate_array(start, end, alpha) ==
    np_add(start, np_scale(alpha, np_sub(end, start)))

interpolate(start, end, alpha) ==
    IF Len(start) # Len(end) THEN ValueError
    ELSE Ok(interpolate_array(start, end, alpha))

(***************************************************************************)
(* manim/utils/paths.py.  A path function is the closure a constructor     *)
(* returns: its kind and the values it closes over.                        *)
(***************************************************************************)
NoAngle == <<0, 0>>
NoCenters == <<>>

\* normalize(axis, fall_back=RIGHT) in place of fall_back=OUT.
unit_axis_of_RIGHT(axis) == normalize(axis, <<1, 0, 0>>)

unit_axis_of(axis) == normalize(axis, OUT)

\* straight_path() returning a half-turn arc in place of interpolate.
straight_path_arc ==
    [kind |-> "arc", arc_angle |-> <<2, 0>>, unit_axis |-> Pt(OUT),
     circles_centers |-> <<>>]

straight_path ==
    [kind |-> "interpolate", arc_angle |-> NoAngle, unit_axis |-> Pt(OUT),
     circles_centers |-> NoCenters]

path_along_circles(arc_angle, circles_centers, axis) ==
    [kind |-> "circles", arc_angle |-> arc_angle,
     unit_axis |-> unit_axis_of(axis), circles_centers |-> circles_centers]

\* abs(arc_angle) <= STRAIGHT_PATH_THRESHOLD in place of <.
path_along_arc_le(arc_angle, axis) ==
    IF AngleAbs(arc_angle) <= STRAIGHT_PATH_THRESHOLD THEN straight_path
    ELSE [kind |-> "arc", arc_angle |-> arc_angle,
          unit_axis |-> unit_axis_of(axis), circles_centers |-> NoCenters]

path_along_arc(arc_angle, axis) ==
    IF AngleAbs(arc_angle) < STRAIGHT_PATH_THRESHOLD THEN straight_path
    ELSE [kind |-> "arc", arc_angle |-> arc_angle,
          unit_axis |-> unit_axis_of(axis), circles_centers |-> NoCenters]

clockwise_path == path_along_arc(<<-2, 0>>, OUT)

counterclockwise_path == path_along_arc(PI, OUT)

spiral_path(angle, axis) ==
    IF AngleAbs(angle) < STRAIGHT_PATH_THRESHOLD THEN straight_path
    ELSE [kind |-> "spiral", arc_angle |-> angle,
          unit_axis |-> unit_axis_of(axis), circles_centers |-> NoCenters]

\* The closure path of path_along_circles.
path_along_circles_path(fn, start_points, end_points, alpha) ==
    LET c == fn.circles_centers
    IN  IF ~Broadcastable(Len(end_points), Len(c))
           \/ Len(start_points) # BLen(Len(end_points), Len(c))
        THEN ValueError
        ELSE
        LET detransformed_end_points ==
                np_add(c, np_dot_T(np_sub(end_points, c),
                       rotation_matrix(-(2 * fn.arc_angle[1]), fn.unit_axis)))
            rot_matrix ==
                rotation_matrix(Eighths(alpha, fn.arc_angle), fn.unit_axis)
        IN  Ok(np_add(c, np_dot_T(
                   np_sub(interpolate_array(start_points,
                                            detransformed_end_points, alpha), c),
                   rot_matrix)))

\* centers = start_points + vects in place of start_points + 0.5 * vects.
arc_centers_full(fn, start_points, vects) ==
    LET centers == np_add(start_points, vects)
    IN  IF fn.arc_angle # PI
        THEN np_add(centers,
                    np_divide(np_cross(fn.unit_axis, np_divide(vects, Two)),
                              np_tan_half(fn.arc_angle)))
        ELSE centers

\* centers as computed by the closure path of path_along_arc.
arc_centers(fn, start_points, vects) ==
    LET centers == np_add(start_points, np_scale(Half, vects))
    IN  IF fn.arc_angle # PI
        THEN np_add(centers,
                    np_divide(np_cross(fn.unit_axis, np_divide(vects, Two)),
                              np_tan_half(fn.arc_angle)))
        ELSE centers

\* np.dot(start_points, rot_matrix.T) in place of
\* np.dot(start_points - centers, rot_matrix.T).
path_along_arc_path_origin(fn, start_points, end_points, alpha) ==
    IF ~Broadcastable(Len(end_points), Len(start_points)) THEN ValueError
    ELSE
    LET vects == np_sub(end_points, start_points)
        centers == arc_centers(fn, start_points, vects)
        rot_matrix == rotation_matrix(Eighths(alpha, fn.arc_angle), fn.unit_axis)
    IN  Ok(np_add(centers, np_dot_T(start_points, rot_matrix)))

\* The closure path of path_along_arc.
path_along_arc_path(fn, start_points, end_points, alpha) ==
    IF ~Broadcastable(Len(end_points), Len(start_points)) THEN ValueError
    ELSE
    LET vects == np_sub(end_points, start_points)
        centers == arc_centers(fn, start_points, vects)
        rot_matrix == rotation_matrix(Eighths(alpha, fn.arc_angle), fn.unit_axis)
    IN  Ok(np_add(centers, np_dot_T(np_sub(start_points, centers), rot_matrix)))

\* The closure path of spiral_path.
spiral_path_path(fn, start_points, end_points, alpha) ==
    IF ~Broadcastable(Len(end_points), Len(start_points)) THEN ValueError
    ELSE
    LET rot_matrix ==
            rotation_matrix(Eighths(Sub(alpha, One), fn.arc_angle), fn.unit_axis)
    IN  Ok(np_add(start_points,
                  np_scale(alpha, np_dot_T(np_sub(end_points, start_points),
                                           rot_matrix))))

\* Calling a path function.
path_func(fn, start_points, end_points, alpha) ==
    CASE fn.kind = "interpolate" -> interpolate(start_points, end_points, alpha)
      [] fn.kind = "circles" ->
            path_along_circles_path(fn, start_points, end_points, alpha)
      [] fn.kind = "arc" ->
            path_along_arc_path(fn, start_points, end_points, alpha)
      [] fn.kind = "spiral" ->
            spiral_path_path(fn, start_points, end_points, alpha)

(***************************************************************************)
(* Inputs                                                                  *)
(***************************************************************************)
Points == << <<1, 1, 1>>, <<5, 5, 1>>, <<1, 1, 5>> >>

\* The collection of len points that starts at Points[off] and wraps around.
Window(off, len) ==
    Rows(len, [i \in 1..len |-> Pt(Points[((off + i - 2) % Len(Points)) + 1])])

Collections == {Window(off, len) : off \in 1..Len(Points), len \in 1..MaxLen}

Alphas == {Num(n, 0, 2) : n \in -1..MaxAlphaHalves}

QuarterAngles == {<<q, 0>> : q \in -MaxQuarter..MaxQuarter}

SmallAngles == {<<0, m>> : m \in {-10, -9, 9, 10}}

Axes == {OUT, <<0, 0, 0>>, <<2, 0, 0>>}

CentersChoices == {Window(2, 1), Window(1, 2)}

\* The angles whose sines, cosines and tangents the model can name.
Exact(fn) == fn.arc_angle[2] = 0

(***************************************************************************)
(* State: the constructor last called with its arguments, the path         *)
(* function it returned, and the last call of that function.               *)
(* built_fn is the path function as the constructor returned it; frames    *)
(* holds, for every caller that runs the path function statement by        *)
(* statement, the line it is at and its local variables.                   *)
(***************************************************************************)
VARIABLES pc, ctor, arg_angle, arg_axis, arg_centers, fn,
          start_points, end_points, alpha, result, built_fn, frames

vars == <<pc, ctor, arg_angle, arg_axis, arg_centers, fn,
          start_points, end_points, alpha, result, built_fn, frames>>

callvars == <<start_points, end_points, alpha, result>>

Callers == {1, 2}

\* The frame of a caller that is not inside a call.
IdleFrame ==
    [pc |-> "idle", alpha |-> Zero, vects |-> <<>>, centers |-> <<>>,
     detransformed_end_points |-> <<>>, rot_matrix |-> <<>>,
     result |-> NoResult]

Init ==
    /\ pc = "idle"
    /\ ctor = "none"
    /\ arg_angle = NoAngle
    /\ arg_axis = OUT
    /\ arg_centers = NoCenters
    /\ fn = straight_path
    /\ start_points = <<>>
    /\ end_points = <<>>
    /\ alpha = Zero
    /\ result = NoResult
    /\ built_fn = straight_path
    /\ frames = [t \in Callers |-> IdleFrame]

StraightPath ==
    /\ pc = "idle"
    /\ pc' = "built"
    /\ ctor' = "straight_path"
    /\ fn' = straight_path
    /\ built_fn' = fn'
    /\ UNCHANGED <<arg_angle, arg_axis, arg_centers, callvars, frames>>

PathAlongCircles ==
    /\ pc = "idle"
    /\ \E a \in QuarterAngles, c \in CentersChoices, x \in Axes :
        /\ arg_angle' = a
        /\ arg_centers' = c
        /\ arg_axis' = x
        /\ fn' = path_along_circles(a, c, x)
    /\ pc' = "built"
    /\ ctor' = "path_along_circles"
    /\ built_fn' = fn'
    /\ UNCHANGED <<callvars, frames>>

PathAlongArc ==
    /\ pc = "idle"
    /\ \E a \in QuarterAngles \cup SmallAngles, x \in Axes :
        /\ arg_angle' = a
        /\ arg_axis' = x
        /\ fn' = path_along_arc(a, x)
    /\ pc' = "built"
    /\ ctor' = "path_along_arc"
    /\ built_fn' = fn'
    /\ UNCHANGED <<arg_centers, callvars, frames>>

ClockwisePath ==
    /\ pc = "idle"
    /\ pc' = "built"
    /\ ctor' = "clockwise_path"
    /\ fn' = clockwise_path
    /\ built_fn' = fn'
    /\ UNCHANGED <<arg_angle, arg_axis, arg_centers, callvars, frames>>

CounterclockwisePath ==
    /\ pc = "idle"
    /\ pc' = "built"
    /\ ctor' = "counterclockwise_path"
    /\ fn' = counterclockwise_path
    /\ built_fn' = fn'
    /\ UNCHANGED <<arg_angle, arg_axis, arg_centers, callvars, frames>>

SpiralPath ==
    /\ pc = "idle"
    /\ \E a \in QuarterAngles \cup SmallAngles, x \in Axes :
        /\ arg_angle' = a
        /\ arg_axis' = x
        /\ fn' = spiral_path(a, x)
    /\ pc' = "built"
    /\ ctor' = "spiral_path"
    /\ built_fn' = fn'
    /\ UNCHANGED <<arg_centers, callvars, frames>>

\* The caller evaluates the path function once.
Call ==
    /\ pc = "built"
    /\ Exact(fn)
    /\ \E s \in Collections, e \in Collections, a \in Alphas :
        /\ start_points' = s
        /\ end_points' = e
        /\ alpha' = a
        /\ result' = path_func(fn, s, e, a)
    /\ pc' = "called"
    /\ UNCHANGED <<ctor, arg_angle, arg_axis, arg_centers, fn, built_fn, frames>>

\* The caller drops the path function and its result.
Discard ==
    /\ pc \in {"built", "called"}
    /\ pc' = "idle"
    /\ ctor' = "none"
    /\ arg_angle' = NoAngle
    /\ arg_axis' = OUT
    /\ arg_centers' = NoCenters
    /\ fn' = straight_path
    /\ start_points' = <<>>
    /\ end_points' = <<>>
    /\ alpha' = Zero
    /\ result' = NoResult
    /\ built_fn' = straight_path
    /\ UNCHANGED frames

Next ==
    \/ StraightPath
    \/ PathAlongCircles
    \/ PathAlongArc
    \/ ClockwisePath
    \/ CounterclockwisePath
    \/ SpiralPath
    \/ Call
    \/ Discard

Spec == Init /\ [][Next]_vars

(***************************************************************************)
(* The path functions statement by statement.  The caller that built a     *)
(* path function may write to the arrays it passed to the constructor; it  *)
(* then allocates a start and an end collection, and two callers run the   *)
(* same path function on these collections, each as often as it likes,     *)
(* their statements interleaved.  A frame is at the line it executes next. *)
(***************************************************************************)
closurevars == <<pc, ctor, arg_angle, arg_axis, arg_centers, fn, built_fn>>

StepAlphas == {Half, One}

SharedArrays == { <<Window(1, 2), Window(2, 2)>>,
                  <<Window(3, MaxLen), Window(1, MaxLen)>> }

\* The value the caller stores in its centers and the one in its axis.
StoredCenter == Pt(Points[3])
StoredAxis == <<0, 1, 0>>

\* circles_centers[0] = ...: the closure reads the caller's array itself
\* (the free variable circles_centers), so it sees the new contents.
MutateCenters ==
    /\ pc = "built"
    /\ ctor = "path_along_circles"
    /\ arg_centers[1] # StoredCenter
    /\ arg_centers' = [arg_centers EXCEPT ![1] = StoredCenter]
    /\ fn' = [fn EXCEPT !.circles_centers = arg_centers']
    /\ UNCHANGED <<pc, ctor, arg_angle, arg_axis, built_fn, callvars, frames>>

\* axis[:] = ...: unit_axis is the array normalize returned, not the
\* caller's.
MutateAxis ==
    /\ pc = "built"
    /\ ctor = "path_along_circles"
    /\ arg_axis # StoredAxis
    /\ arg_axis' = StoredAxis
    /\ UNCHANGED <<pc, ctor, arg_angle, arg_centers, fn, built_fn, callvars,
                   frames>>

Allocate ==
    /\ pc = "built"
    /\ Exact(fn)
    /\ \E arrays \in SharedArrays :
        /\ start_points' = arrays[1]
        /\ end_points' = arrays[2]
    /\ pc' = "running"
    /\ UNCHANGED <<ctor, arg_angle, arg_axis, arg_centers, fn, built_fn,
                   alpha, result, frames>>

\* The first line of the function that fn is.
FirstLine ==
    CASE fn.kind = "interpolate" -> "interpolate"
      [] fn.kind = "circles" -> "L145"
      [] fn.kind = "arc" -> "L215"
      [] fn.kind = "spiral" -> "L374"

Returns(t, value) ==
    frames' = [frames EXCEPT ![t] =
                  [IdleFrame EXCEPT !.pc = "done", !.alpha = frames[t].alpha,
                                    !.result = value]]

\* centers shares the memory of start_points.
start_points_after_L218_shared(start, centers) == centers

\* The contents of start_points after line 218: centers is the array that
\* start_points + 0.5 * vects created, and centers += ... writes that one.
start_points_after_L218(start, centers) == start

\* The de-transformed points are written back to end_points.
end_points_after_L145_in_place(end, detransformed_end_points) ==
    detransformed_end_points

\* The contents of end_points after lines 145-147: end_points -
\* circles_centers and circles_centers + ... create new arrays.
end_points_after_L145(end, detransformed_end_points) == end

\* if abs(arc_angle) != np.pi in place of if arc_angle != np.pi.
offset_branch_abs(arc_angle) == arc_angle \notin {PI, <<-2, 0>>}

\* Line 217: if arc_angle != np.pi.
offset_branch(arc_angle) == arc_angle # PI

\* A caller calls the path function with the shared collections.
Enter ==
    /\ pc = "running"
    /\ \E t \in Callers, a \in StepAlphas :
        /\ frames[t].pc \in {"idle", "done"}
        /\ frames' = [frames EXCEPT ![t] =
                         [IdleFrame EXCEPT !.pc = FirstLine, !.alpha = a]]
    /\ UNCHANGED <<closurevars, callvars>>

\* bezier.interpolate, the function straight_path() returns.
StepInterpolate ==
    /\ \E t \in Callers :
        /\ frames[t].pc = "interpolate"
        /\ Returns(t, interpolate(start_points, end_points, frames[t].alpha))
    /\ UNCHANGED <<closurevars, callvars>>

\* path_along_circles.path, lines 145-147.
StepL145 ==
    /\ \E t \in Callers :
        /\ frames[t].pc = "L145"
        /\ IF ~Broadcastable(Len(end_points), Len(fn.circles_centers))
           THEN Returns(t, ValueError) /\ UNCHANGED end_points
           ELSE LET c == fn.circles_centers
                    d == np_add(c, np_dot_T(np_sub(end_points, c),
                             rotation_matrix(-(2 * fn.arc_angle[1]),
                                             fn.unit_axis)))
                IN  /\ frames' = [frames EXCEPT
                                     ![t].detransformed_end_points = d,
                                     ![t].pc = "L148"]
                    /\ end_points' = end_points_after_L145(end_points, d)
    /\ UNCHANGED <<closurevars, start_points, alpha, result>>

\* path_along_circles.path, line 148.
StepL148 ==
    /\ \E t \in Callers :
        /\ frames[t].pc = "L148"
        /\ frames' = [frames EXCEPT
                         ![t].rot_matrix =
                             rotation_matrix(Eighths(frames[t].alpha,
                                                     fn.arc_angle),
                                             fn.unit_axis),
                         ![t].pc = "L149"]
    /\ UNCHANGED <<closurevars, callvars>>

\* path_along_circles.path, lines 149-153.
StepL149 ==
    /\ \E t \in Callers :
        /\ frames[t].pc = "L149"
        /\ LET f == frames[t]
               c == fn.circles_centers
           IN  IF Len(start_points) # Len(f.detransformed_end_points)
               THEN Returns(t, ValueError)
               ELSE Returns(t, Ok(np_add(c, np_dot_T(
                        np_sub(interpolate_array(start_points,
                                   f.detransformed_end_points, f.alpha), c),
                        f.rot_matrix))))
    /\ UNCHANGED <<closurevars, callvars>>

\* path_along_arc.path, line 215.
StepL215 ==
    /\ \E t \in Callers :
        /\ frames[t].pc = "L215"
        /\ IF ~Broadcastable(Len(end_points), Len(start_points))
           THEN Returns(t, ValueError)
           ELSE frames' = [frames EXCEPT
                              ![t].vects = np_sub(end_points, start_points),
                              ![t].pc = "L216"]
    /\ UNCHANGED <<closurevars, callvars>>

\* path_along_arc.path, line 216.
StepL216 ==
    /\ \E t \in Callers :
        /\ frames[t].pc = "L216"
        /\ frames' = [frames EXCEPT
                         ![t].centers =
                             np_add(start_points,
                                    np_scale(Half, frames[t].vects)),
                         ![t].pc = "L217"]
    /\ UNCHANGED <<closurevars, callvars>>

\* path_along_arc.path, line 217.
StepL217 ==
    /\ \E t \in Callers :
        /\ frames[t].pc = "L217"
        /\ frames' = [frames EXCEPT
                         ![t].pc = IF offset_branch(fn.arc_angle)
                                   THEN "L218" ELSE "L219"]
    /\ UNCHANGED <<closurevars, callvars>>

\* path_along_arc.path, line 218.
StepL218 ==
    /\ \E t \in Callers :
        /\ frames[t].pc = "L218"
        /\ LET f == frames[t]
               centers ==
                   np_add(f.centers,
                          np_divide(np_cross(fn.unit_axis,
                                             np_divide(f.vects, Two)),
                                    np_tan_half(fn.arc_angle)))
           IN  /\ frames' = [frames EXCEPT ![t].centers = centers,
                                           ![t].pc = "L219"]
               /\ start_points' = start_points_after_L218(start_points, centers)
    /\ UNCHANGED <<closurevars, end_points, alpha, result>>

\* path_along_arc.path, line 219.
StepL219 ==
    /\ \E t \in Callers :
        /\ frames[t].pc = "L219"
        /\ frames' = [frames EXCEPT
                         ![t].rot_matrix =
                             rotation_matrix(Eighths(frames[t].alpha,
                                                     fn.arc_angle),
                                             fn.unit_axis),
                         ![t].pc = "L220"]
    /\ UNCHANGED <<closurevars, callvars>>

\* path_along_arc.path, line 220.
StepL220 ==
    /\ \E t \in Callers :
        /\ frames[t].pc = "L220"
        /\ LET f == frames[t]
           IN  Returns(t, Ok(np_add(f.centers,
                   np_dot_T(np_sub(start_points, f.centers), f.rot_matrix))))
    /\ UNCHANGED <<closurevars, callvars>>

\* spiral_path.path, line 374.
StepL374 ==
    /\ \E t \in Callers :
        /\ frames[t].pc = "L374"
        /\ frames' = [frames EXCEPT
                         ![t].rot_matrix =
                             rotation_matrix(Eighths(Sub(frames[t].alpha, One),
                                                     fn.arc_angle),
                                             fn.unit_axis),
                         ![t].pc = "L375"]
    /\ UNCHANGED <<closurevars, callvars>>

\* spiral_path.path, line 375.
StepL375 ==
    /\ \E t \in Callers :
        /\ frames[t].pc = "L375"
        /\ IF ~Broadcastable(Len(end_points), Len(start_points))
           THEN Returns(t, ValueError)
           ELSE Returns(t, Ok(np_add(start_points,
                    np_scale(frames[t].alpha,
                             np_dot_T(np_sub(end_points, start_points),
                                      frames[t].rot_matrix)))))
    /\ UNCHANGED <<closurevars, callvars>>

StepNext ==
    \/ StraightPath
    \/ PathAlongCircles
    \/ PathAlongArc
    \/ ClockwisePath
    \/ CounterclockwisePath
    \/ SpiralPath
    \/ MutateCenters
    \/ MutateAxis
    \/ Allocate
    \/ Enter
    \/ StepInterpolate
    \/ StepL145
    \/ StepL148
    \/ StepL149
    \/ StepL215
    \/ StepL216
    \/ StepL217
    \/ StepL218
    \/ StepL219
    \/ StepL220
    \/ StepL374
    \/ StepL375

StepSpec == Init /\ [][StepNext]_vars

(***************************************************************************)
(* Properties                                                              *)
(***************************************************************************)
Called == pc = "called"

SameLen == Len(start_points) = Len(end_points)

\* circles_centers is a single point or holds one center per point.
CentersFit ==
    fn.kind = "circles" => Len(fn.circles_centers) \in {1, Len(start_points)}

Returned(A) == result.status = "ok" /\ result.value = A

ArcCtors == {"path_along_arc", "clockwise_path", "counterclockwise_path"}

\* The integer coordinate k of point i of an input collection.
Coord(A, i, k) == A[i][k][1]

\* C1: every path function, called with equal-length collections and
\* alpha = 1, returns exactly the end collection.
C1_EndAtAlphaOne ==
    (Called /\ SameLen /\ CentersFit /\ alpha = One) => Returned(end_points)

\* C2: every path function, called with equal-length collections and
\* alpha = 0, returns exactly the start collection, whatever angle, axis
\* and centers it was constructed with.
C2_StartAtAlphaZero ==
    (Called /\ SameLen /\ CentersFit /\ alpha = Zero) => Returned(start_points)

\* C3 as claimed: path_along_arc(pi) at alpha = 0.5 returns the chord
\* midpoint (s + e)/2 of every pair.
C3_ChordMidpoint ==
    (Called /\ SameLen /\ ctor = "path_along_arc" /\ arg_angle = PI
        /\ alpha = Half)
    => Returned([i \in 1..Len(start_points) |-> [k \in 1..3 |->
           Num(Coord(start_points, i, k) + Coord(end_points, i, k), 0, 2)]])

\* The quarter turn about OUT of (s - e)/2, added to the chord midpoint.
ApexAboutOUT(s, e) ==
    << Num((s[1][1] + e[1][1]) - (s[2][1] - e[2][1]), 0, 2),
       Num((s[2][1] + e[2][1]) + (s[1][1] - e[1][1]), 0, 2),
       Num((s[3][1] + e[3][1]) + (s[3][1] - e[3][1]), 0, 2) >>

\* C3 amended: path_along_arc(pi) about the default axis turns every point
\* about the chord midpoint (s + e)/2 itself; at alpha = 0.5 it returns
\* (s + e)/2 + R(pi/2)(s - e)/2, which is the chord midpoint only for s = e.
C3_HalfCircleApex ==
    (Called /\ SameLen /\ ctor = "path_along_arc" /\ arg_angle = PI
        /\ arg_axis \in {OUT, <<0, 0, 0>>} /\ alpha = Half)
    => /\ Returned([i \in 1..Len(start_points) |->
                       ApexAboutOUT(start_points[i], end_points[i])])
       /\ \A i \in 1..Len(start_points) :
            (\A k \in 1..3 : result.value[i][k]
                 = Num(Coord(start_points, i, k) + Coord(end_points, i, k), 0, 2))
            <=> start_points[i] = end_points[i]

C3_Witness ==
    /\ Called /\ ctor = "path_along_arc" /\ arg_angle = PI /\ arg_axis = OUT
    /\ alpha = Half /\ Len(start_points) = 2 /\ Len(end_points) = 2
    /\ start_points[1] = Pt(<<1, 1, 1>>) /\ end_points[1] = Pt(<<5, 5, 1>>)
    /\ result.status = "ok"
    /\ result.value[1] = Pt(<<5, 1, 1>>)

\* C4 as claimed: when start equals end pointwise every path function,
\* path_along_circles with any centers included, returns that collection
\* for every alpha.
C4_StationaryAll ==
    (Called /\ start_points = end_points) => Returned(start_points)

\* C4 amended: when start equals end pointwise, straight_path,
\* path_along_arc, clockwise_path, counterclockwise_path and spiral_path
\* return that collection for every alpha, with no division by zero and no
\* undefined value; path_along_circles, with one center or one center per
\* point, returns it at alpha = 0 and alpha = 1.
C4_Stationary ==
    (Called /\ start_points = end_points /\ CentersFit
        /\ (ctor = "path_along_circles" => alpha \in {Zero, One}))
    => Returned(start_points)

C4_Witness ==
    /\ Called /\ ctor = "path_along_arc" /\ arg_angle = <<4, 0>>
    /\ start_points = end_points /\ Len(start_points) = 2
    /\ alpha = Half /\ Returned(start_points)

\* C5: a call with start and end collections of different lengths fails
\* with a ValueError; it never broadcasts one collection to the other.
C5_MismatchFails ==
    (Called /\ ~SameLen) => result.status = "ValueError"

\* |angle| < 0.01 for the angles of the model: no quarter turn and fewer
\* than 10 milliradians.
Below(angle) == angle[1] = 0 /\ angle[2] \in -9..9

\* C6: path_along_arc(a, axis) and spiral_path(a, axis) return straight_path()
\* itself when |a| < 0.01, so every call returns s + alpha*(e - s); they
\* return the arc or spiral closure when |a| >= 0.01.
C6_SmallAngleIsStraight ==
    (pc # "idle" /\ ctor \in {"path_along_arc", "spiral_path"})
    => /\ Below(arg_angle) => fn = straight_path
       /\ ~Below(arg_angle) =>
             fn.kind = (IF ctor = "path_along_arc" THEN "arc" ELSE "spiral")
       /\ (Called /\ Below(arg_angle) /\ SameLen) =>
             Returned([i \in 1..Len(start_points) |-> [k \in 1..3 |->
                 Num(alpha[3] * Coord(start_points, i, k)
                     + alpha[1] * (Coord(end_points, i, k)
                                   - Coord(start_points, i, k)), 0, alpha[3])]])

C6_Witness ==
    /\ Called /\ ctor = "spiral_path" /\ arg_angle = <<0, -9>>
    /\ arg_axis = <<2, 0, 0>> /\ alpha = Half
    /\ start_points # end_points /\ SameLen
    /\ result.status = "ok" /\ result.value # start_points

WithAxisOUT ==
    CASE ctor = "path_along_arc" -> path_along_arc(arg_angle, OUT)
      [] ctor = "spiral_path" -> spiral_path(arg_angle, OUT)
      [] ctor = "path_along_circles" ->
            path_along_circles(arg_angle, arg_centers, OUT)

\* C8: path_along_arc, path_along_circles and spiral_path constructed with
\* a zero-vector axis return a path function with the outputs of the same
\* constructor called with the default axis OUT.
C8_ZeroAxisIsOUT ==
    (pc # "idle" /\ arg_axis = <<0, 0, 0>>
        /\ ctor \in {"path_along_arc", "spiral_path", "path_along_circles"})
    => /\ fn = WithAxisOUT
       /\ Called =>
            result = path_func(WithAxisOUT, start_points, end_points, alpha)

C8_Witness ==
    /\ Called /\ ctor = "path_along_circles" /\ arg_axis = <<0, 0, 0>>
    /\ arg_angle = <<1, 0>> /\ alpha = Half /\ SameLen
    /\ result.status = "ok" /\ result.value # start_points

\* C9: straight_path()(s, e, alpha) is s + alpha*(e - s) in every
\* coordinate, for alpha below 0 and above 1 as well.
C9_StraightIsLinear ==
    (Called /\ SameLen /\ ctor = "straight_path")
    => Returned([i \in 1..Len(start_points) |-> [k \in 1..3 |->
           Num(alpha[3] * Coord(start_points, i, k)
               + alpha[1] * (Coord(end_points, i, k)
                             - Coord(start_points, i, k)), 0, alpha[3])]])

C9_Witness ==
    /\ Called /\ ctor = "straight_path" /\ alpha = Num(3, 0, 2)
    /\ Len(start_points) = 1 /\ Len(end_points) = 1
    /\ start_points[1] = Pt(<<1, 1, 1>>) /\ end_points[1] = Pt(<<5, 5, 1>>)
    /\ result.status = "ok"
    /\ result.value[1] = Pt(<<7, 7, 1>>)

Dot3(u, v) == Add(Add(Mul(u[1], v[1]), Mul(u[2], v[2])), Mul(u[3], v[3]))

\* q is the mirror image of p in the line through m with direction v:
\* |v|^2 ((p - m) + (q - m)) = 2 ((p - m).v) v, and q = p when v = 0.
MirrorAcrossLine(p, q, m, v) ==
    LET wp == [k \in 1..3 |-> Sub(p[k], m[k])]
        wq == [k \in 1..3 |-> Sub(q[k], m[k])]
    IN  IF Dot3(v, v) = Zero THEN p = q
        ELSE \A k \in 1..3 :
                Mul(Dot3(v, v), Add(wp[k], wq[k]))
                    = Mul(Mul(Two, Dot3(wp, v)), v[k])

\* C10: clockwise_path() is path_along_arc(-pi) and counterclockwise_path()
\* is path_along_arc(+pi) about OUT, and for the same start and end their
\* outputs at alpha = 0.5 are mirror images in the chord from start to end.
C10_MirrorImages ==
    /\ (pc # "idle" /\ ctor = "clockwise_path")
          => fn = path_along_arc(<<-2, 0>>, OUT)
    /\ (pc # "idle" /\ ctor = "counterclockwise_path")
          => fn = path_along_arc(PI, OUT)
    /\ (Called /\ SameLen /\ ctor = "clockwise_path" /\ alpha = Half)
          => LET ccw == path_func(counterclockwise_path, start_points,
                                  end_points, alpha)
             IN  /\ result.status = "ok" /\ ccw.status = "ok"
                 /\ \A i \in 1..Len(start_points) :
                      MirrorAcrossLine(result.value[i], ccw.value[i],
                          [k \in 1..3 |-> Mul(Half, Add(start_points[i][k],
                                                       end_points[i][k]))],
                          [k \in 1..3 |-> Sub(end_points[i][k],
                                              start_points[i][k])])

\* C14 as claimed: for equal-length start and end of length N every path
\* function returns N points, path_along_circles with any centers included.
C14_LengthAnyCenters ==
    (Called /\ SameLen)
    => result.status = "ok" /\ Len(result.value) = Len(start_points)

\* C14 amended: for equal-length start and end of length N every path
\* function returns N points; for path_along_circles this holds when the
\* centers are a single point or one center per point.
C14_OutputLength ==
    (Called /\ SameLen /\ CentersFit)
    => result.status = "ok" /\ Len(result.value) = Len(start_points)

C14_Witness ==
    /\ Called /\ ctor = "path_along_circles" /\ Len(fn.circles_centers) = 1
    /\ Len(start_points) = 3 /\ Len(end_points) = 3
    /\ start_points # end_points /\ alpha = Half
    /\ result.status = "ok" /\ Len(result.value) = 3

\* The chord of every pair is nonzero and parallel to the unit axis.
ChordsAlongAxis ==
    LET vects == np_sub(end_points, start_points)
    IN  \A i \in 1..Len(vects) :
           /\ vects[i] # Pt(<<0, 0, 0>>)
           /\ np_cross(fn.unit_axis, <<vects[i]>>) = <<Pt(<<0, 0, 0>>)>>

\* C15: in path_along_arc, for chords parallel to the rotation axis the
\* cross-product offset vanishes, the centers are the chord midpoints, and
\* the output is start at alpha = 0 and end at alpha = 1.
C15_AxisParallelChord ==
    (Called /\ SameLen /\ ctor = "path_along_arc" /\ fn.kind = "arc"
        /\ ChordsAlongAxis)
    => /\ arc_centers(fn, start_points, np_sub(end_points, start_points))
            = interpolate_array(start_points, end_points, Half)
       /\ alpha = Zero => Returned(start_points)
       /\ alpha = One => Returned(end_points)

\* The path function as point i sees it: its own center when
\* circles_centers holds one center per point.
FnAt(i) ==
    [fn EXCEPT !.circles_centers = IF Len(@) <= 1 THEN @ ELSE <<@[i]>>]

Reverse(A) == [i \in 1..Len(A) |-> A[Len(A) + 1 - i]]

\* C16: output point i of every path function is the output of the same
\* function for the single pair (start[i], end[i]) (with the center of
\* index i), so it does not depend on the other pairs, and reversing the
\* order of start, end and per-point centers reverses the output.
C16_PerPointIndependent ==
    (Called /\ SameLen /\ CentersFit /\ result.status = "ok")
    => /\ \A i \in 1..Len(start_points) :
            result.value[i]
                = path_func(FnAt(i), <<start_points[i]>>, <<end_points[i]>>,
                            alpha).value[1]
       /\ path_func([fn EXCEPT !.circles_centers = Reverse(@)],
                    Reverse(start_points), Reverse(end_points), alpha).value
            = Reverse(result.value)

C16_Witness ==
    /\ Called /\ ctor = "path_along_circles" /\ Len(fn.circles_centers) = 2
    /\ arg_angle = <<1, 0>> /\ alpha = Half
    /\ Len(start_points) = 2 /\ Len(end_points) = 2
    /\ start_points[1] # start_points[2] /\ start_points # end_points
    /\ result.status = "ok" /\ result.value[1] # result.value[2]

\* Caller t has returned from a call.
Done(t) == frames[t].pc = "done"

\* C11: after path_along_circles(angle, centers, axis) has returned, what
\* the caller writes to the centers or the axis it passed does not change
\* the outputs: every call returns what the path function returned by the
\* constructor returns.
C11_ConfigFixed ==
    (pc = "running" /\ ctor = "path_along_circles")
    => \A t \in Callers :
          Done(t) => frames[t].result
                        = path_func(built_fn, start_points, end_points,
                                    frames[t].alpha)

\* C12: two calls of the same path function with the same start, end and
\* alpha return the same output, whatever calls were made in between and
\* in whatever order.
C12_Deterministic ==
    \A t, u \in Callers :
        (Done(t) /\ Done(u) /\ frames[t].alpha = frames[u].alpha)
        => frames[t].result = frames[u].result

C12_Witness ==
    /\ fn.kind = "circles" /\ fn.arc_angle = <<1, 0>>
    /\ Len(fn.circles_centers) = 2 /\ Len(start_points) = 2
    /\ Done(1) /\ Done(2) /\ frames[1].alpha = Half /\ frames[2].alpha = Half
    /\ frames[1].result.status = "ok"
    /\ frames[1].result.value # start_points

\* C13: a statement of a call writes neither start, end, the bound centers,
\* the bound axis nor the caller's centers and axis, and under every
\* interleaving of the statements of two calls each call returns what the
\* path function returns when it runs alone.
C13_NoSharedWrites ==
    /\ [](\A t \in Callers :
            Done(t) => frames[t].result
                          = path_func(fn, start_points, end_points,
                                      frames[t].alpha))
    /\ [][frames' # frames
            => UNCHANGED <<start_points, end_points, fn, arg_centers,
                           arg_axis>>]_vars

C13_Witness ==
    /\ fn.kind = "arc" /\ fn.arc_angle = <<1, 0>>
    /\ Done(1) /\ frames[1].alpha = Half /\ frames[1].result.status = "ok"
    /\ frames[1].result.value # start_points
    /\ frames[2].pc = "L219" /\ frames[2].alpha = One

\* The chord midpoints start + (end - start)/2.
Midpoints == interpolate_array(start_points, end_points, Half)

\* C17: path_along_arc goes from the test of line 217 straight to line 219
\* exactly when arc_angle is +pi (two quarter turns); for every other angle
\* of an arc closure, -pi of clockwise_path() included, it executes line 218,
\* which adds cross(axis, vects/2)/tan(arc_angle/2) to the chord midpoints.
C17_OffsetBranch ==
    [][\A t \in Callers :
          /\ (frames[t].pc = "L217" /\ frames'[t].pc # "L217")
                => /\ frames[t].centers = Midpoints
                   /\ frames'[t].pc = "L219" <=> fn.arc_angle = <<2, 0>>
                   /\ frames'[t].pc = "L218" <=> fn.arc_angle # <<2, 0>>
          /\ (frames[t].pc = "L218" /\ frames'[t].pc # "L218")
                => /\ frames'[t].pc = "L219"
                   /\ frames'[t].centers
                         = np_add(Midpoints,
                              np_divide(np_cross(fn.unit_axis,
                                            np_divide(np_sub(end_points,
                                                             start_points),
                                                      Two)),
                                        np_tan_half(fn.arc_angle)))]_vars

C17_Witness ==
    /\ ctor = "clockwise_path" /\ fn.arc_angle = <<-2, 0>>
    /\ frames[1].pc = "L218" /\ frames[1].centers = Midpoints
    /\ start_points # end_points

====
